---------------------------- MODULE Spec2Model ----------------------------
(***************************************************************************)
(* A model of the DotSlash artifact cache: src/src/dotslash_cache.rs (the  *)
(* cache root and its ownership check), src/src/http_provider.rs (the HTTP *)
(* fetch provider) and src/src/util/make_tree_read_only.rs (hardening of a *)
(* cached tree).                                                           *)
(*                                                                         *)
(* Four specifications share the module:                                   *)
(*   Spec      the cache root resolver on a filesystem with owners,        *)
(*   SpecTree  make_tree_entries_read_only on a directory tree,            *)
(*   SpecFetch processes fetching artifacts under the per-prefix lock.     *)
(*   SpecProvider one fetch with any provider configuration.               *)
(***************************************************************************)
EXTENDS Naturals, Sequences, FiniteSets, TLC

VARIABLES
    fs,      \* the filesystem: absolute path -> entry, for the paths that exist
    uid,     \* the real user id of the process, what getuid() returns
    euid,    \* the effective user id, what the kernel checks access against
    fs0,     \* the filesystem as it was when the call was made
    pc,      \* "idle" before the call, "done" after it
    arg,     \* the operation called and its inputs
    ret,     \* what the call returned
    trace,   \* the environment and filesystem lookups the call made, in order
    procs,   \* SpecFetch: each process's position, artifact and provider config
    locks,   \* SpecFetch: lock directory -> the process holding its file lock
    dest,    \* SpecFetch: destination path of each process -> bytes on disk
    curl     \* SpecFetch: the transfer commands built, in order

vars == <<fs, fs0, uid, euid, pc, arg, ret, trace, procs, locks, dest, curl>>
fsVars == <<fs, fs0, uid, euid, pc, arg, ret, trace>>
fetchVars == <<procs, locks, dest, curl>>

(***************************************************************************)
(* Bounds.                                                                 *)
(***************************************************************************)
MaxUid == 1
Uids == 0..MaxUid
\* Levels of entries below the folder that is made read-only.
MaxTreeDepth == 2
\* Processes fetching into one cache, and bytes in a fetched artifact.
NumProcs == 2
ContentLen == 2

(***************************************************************************)
(* Paths.  A path is the sequence of its components, as Path::components   *)
(* yields them; an absolute path starts with the root component "/".  The  *)
(* empty sequence is the empty path "".                                    *)
(***************************************************************************)
Root == <<"/">>
Cwd == Root
NoPath == <<>>

IsAbsolute(p) == Len(p) > 0 /\ p[1] = "/"

\* PathBuf::join / PathBuf::push with a relative, single-component name.
Join(p, name) == Append(p, name)

\* Path::ancestors: the path itself, then each parent() until there is none.
\* The parent of "/a" is "/", "/" has none; the parent of "a" is "", which
\* has none.
Ancestors(p) ==
    LET lo == IF IsAbsolute(p) THEN 1 ELSE 0
        n  == IF Len(p) = 0 THEN 1 ELSE Len(p) - lo + 1
    IN  [i \in 1..n |-> SubSeq(p, 1, Len(p) - i + 1)]

(***************************************************************************)
(* Filesystem entries.  The permission bits r, w, x are kept one per       *)
(* entry: the modelled modes grant the same bits to every class, and the   *)
(* superuser (euid 0) passes every directory access check.                 *)
(***************************************************************************)
Dir(o, r, w, x) ==
    [kind |-> "dir", owner |-> o, r |-> r, w |-> w, x |-> x, target |-> NoPath]
File(o, w) ==
    [kind |-> "file", owner |-> o, r |-> TRUE, w |-> w, x |-> FALSE, target |-> NoPath]
Symlink(o, t) ==
    [kind |-> "symlink", owner |-> o, r |-> TRUE, w |-> TRUE, x |-> TRUE, target |-> t]
NoMeta ==
    [kind |-> "none", owner |-> 0, r |-> FALSE, w |-> FALSE, x |-> FALSE, target |-> NoPath]

Exists(f, p) == p \in DOMAIN f
MaySearch(f, d, eu) == eu = 0 \/ f[d].x
MayRead(f, d, eu) == eu = 0 \/ f[d].r

StatOk(p, m) == [err |-> "OK", meta |-> m, path |-> p]
StatErr(e) == [err |-> e, meta |-> NoMeta, path |-> NoPath]

\* Path resolution as the kernel does it.  The prefix of length i of abs is
\* an existing directory; look the next component up in it.  follow says
\* whether a symbolic link in the last component is followed (stat) or not
\* (lstat).  hops is the number of symbolic links that may still be followed
\* before the lookup fails with ELOOP.
RECURSIVE Walk(_, _, _, _, _, _)
Walk(f, abs, i, eu, follow, hops) ==
    IF i = Len(abs) THEN StatOk(abs, f[abs])
    ELSE IF ~MaySearch(f, SubSeq(abs, 1, i), eu) THEN StatErr("EACCES")
    ELSE LET q    == SubSeq(abs, 1, i + 1)
             last == (i + 1 = Len(abs))
         IN  IF ~Exists(f, q) THEN StatErr("ENOENT")
             ELSE IF f[q].kind = "symlink" /\ (~last \/ follow)
                  THEN IF hops = 0 THEN StatErr("ELOOP")
                       ELSE Walk(f, f[q].target \o SubSeq(abs, i + 2, Len(abs)),
                                 1, eu, follow, hops - 1)
             ELSE IF last THEN StatOk(q, f[q])
             ELSE IF f[q].kind = "dir" THEN Walk(f, abs, i + 1, eu, follow, hops)
             ELSE StatErr("ENOTDIR")

Absolute(p) == IF IsAbsolute(p) THEN p ELSE Cwd \o p

\* std::fs::symlink_metadata = lstat(2): the last component is not followed.
symlink_metadata(f, p, eu) ==
    IF p = NoPath THEN StatErr("ENOENT")
    ELSE Walk(f, Absolute(p), 1, eu, FALSE, Cardinality(DOMAIN f))

\* std::fs::metadata = stat(2): every symbolic link is followed.
metadata(f, p, eu) ==
    IF p = NoPath THEN StatErr("ENOENT")
    ELSE Walk(f, Absolute(p), 1, eu, TRUE, Cardinality(DOMAIN f))

\* io::Error::kind() of an errno.
ErrorKind(e) ==
    CASE e = "ENOENT"  -> "NotFound"
      [] e = "EACCES"  -> "PermissionDenied"
      [] e = "EPERM"   -> "PermissionDenied"
      [] e = "ENOTDIR" -> "NotADirectory"
      [] OTHER         -> "Other"


(***************************************************************************)
(* The cache root: src/src/dotslash_cache.rs.                              *)
(***************************************************************************)
None == [some |-> FALSE, val |-> NoPath]
Some(p) == [some |-> TRUE, val |-> p]

Op(op, p) == [op |-> op, path |-> p]

\* The loop of is_safe_to_own from ancestor i on: the decision, and the
\* ancestors whose metadata was looked up on the way.
RECURSIVE is_safe_to_own_loop(_, _, _, _, _)
is_safe_to_own_loop(f, anc, i, ru, eu) ==
    IF i > Len(anc) THEN [safe |-> FALSE, stats |-> <<>>]
    ELSE LET m    == symlink_metadata(f, anc[i], eu)
             here == <<Op("lstat", anc[i])>>
             rest == is_safe_to_own_loop(f, anc, i + 1, ru, eu)
             continue == [safe |-> rest.safe, stats |-> here \o rest.stats]
         IN  IF m.err = "OK" THEN [safe |-> (ru = m.meta.owner), stats |-> here]
             ELSE IF ErrorKind(m.err) = "NotFound" THEN continue
             ELSE IF m.err = "ENOTDIR" THEN continue
             ELSE IF ErrorKind(m.err) = "PermissionDenied"
                  THEN [safe |-> FALSE, stats |-> here]
             ELSE [safe |-> FALSE, stats |-> here]

\* Mutant: any existing ancestor owned by the caller makes the path safe.
is_safe_to_own_any_owned(f, path, ru, eu) ==
    LET anc == Ancestors(path)
    IN  \E i \in 1..Len(anc) :
            /\ symlink_metadata(f, anc[i], eu).err = "OK"
            /\ ru = symlink_metadata(f, anc[i], eu).meta.owner

is_safe_to_own(f, path, ru, eu) ==
    is_safe_to_own_loop(f, Ancestors(path), 1, ru, eu).safe

is_safe_to_own_stats(f, path, ru, eu) ==
    is_safe_to_own_loop(f, Ancestors(path), 1, ru, eu).stats

\* "dotslash-" followed by getuid().as_raw().to_string().
UidName(u) == "dotslash-" \o ToString(u)

\* Mutant: the user id is not pushed onto the name.
named_cache_dir_at_no_uid(dir, ru) == Join(dir, "dotslash-")

named_cache_dir_at(dir, ru) == Join(dir, UidName(ru))

\* Mutant: the override is taken only when it is safe to own.
get_dotslash_cache_checked_override(f, ru, eu, env) ==
    IF env.override.some /\ is_safe_to_own(f, env.override.val, ru, eu)
    THEN [tag |-> "path", path |-> env.override.val,
          trace |-> <<Op("var_os", NoPath)>>
                      \o is_safe_to_own_stats(f, env.override.val, ru, eu)]
    ELSE [tag |-> "path", path |-> named_cache_dir_at(env.temp_dir, ru),
          trace |-> <<Op("var_os", NoPath), Op("temp_dir", NoPath)>>]

\* env: the value of DOTSLASH_CACHE (override), what dirs::cache_dir()
\* gives (cache_dir) and what env::temp_dir() gives (temp_dir).
get_dotslash_cache(f, ru, eu, env) ==
    IF env.override.some
    THEN [tag |-> "path", path |-> env.override.val,
          trace |-> <<Op("var_os", NoPath)>>]
    ELSE IF ~env.cache_dir.some
    THEN [tag |-> "panic", path |-> NoPath,
          trace |-> <<Op("var_os", NoPath), Op("cache_dir", NoPath)>>]
    ELSE LET cache_dir == Join(env.cache_dir.val, "dotslash")
             looked == <<Op("var_os", NoPath), Op("cache_dir", NoPath)>>
                         \o is_safe_to_own_stats(f, cache_dir, ru, eu)
         IN  IF ~is_safe_to_own(f, cache_dir, ru, eu)
             THEN [tag |-> "path",
                   path |-> named_cache_dir_at(env.temp_dir, ru),
                   trace |-> looked \o <<Op("temp_dir", NoPath)>>]
             ELSE [tag |-> "path", path |-> cache_dir, trace |-> looked]

(***************************************************************************)
(* The filesystems and environments the resolver is run on.                *)
(***************************************************************************)
\* dirs::cache_dir(): $XDG_CACHE_HOME when it is absolute, else $HOME/.cache,
\* which is relative when $HOME is (HOME=c gives c/.cache); or nothing when
\* no home directory is known.
PlatformCacheDirs == { <<"/", "c">>, <<"c", ".cache">> }
TempDirs == { <<"/", "tmp">> }
Overrides == { <<"/", "tmp", "custom-cache">>, <<"/", "c", "dotslash">>, <<"c">>, NoPath }

Envs ==
    [override : {None} \cup {Some(p) : p \in Overrides},
     cache_dir : {None} \cup {Some(p) : p \in PlatformCacheDirs},
     temp_dir : TempDirs]
NoEnv == [override |-> None, cache_dir |-> None, temp_dir |-> NoPath]

\* The paths is_safe_to_own is asked about.
CheckedPaths ==
    { <<"/", "c", "dotslash">>, <<"/", "c">>, Root, <<"c", "dotslash">>, <<"c">>,
      <<"c", ".cache", "dotslash">>, NoPath } \cup { <<"/", "tmp", UidName(u)>> : u \in Uids }

Single(p, e) == p :> e
Empty == [p \in {} |-> NoMeta]

\* What may be at a path whose parent directory exists: nothing, a file, a
\* symbolic link (to itself, or to a path that does not exist), or a
\* directory with any of `below` in it.
NodeAt(p, below) ==
    {Empty}
    \cup { Single(p, File(o, TRUE)) : o \in Uids }
    \cup { Single(p, Symlink(o, t)) : o \in Uids, t \in {p, <<"/", "gone">>} }
    \cup { Single(p, Dir(o, TRUE, TRUE, x)) @@ b : o \in Uids, x \in BOOLEAN, b \in below }

\* /tmp is a searchable directory; at most one dotslash-<uid> entry exists
\* in it, a directory created by any user.
TmpFs ==
    { Single(<<"/", "tmp">>, Dir(0, TRUE, TRUE, TRUE)) }
    \cup { Single(<<"/", "tmp">>, Dir(0, TRUE, TRUE, TRUE))
             @@ Single(<<"/", "tmp", UidName(u)>>, Dir(o, TRUE, TRUE, TRUE))
           : u \in Uids, o \in Uids }

CacheFileSystems ==
    { Single(Root, Dir(o, TRUE, TRUE, TRUE)) @@ t @@ c :
        o \in Uids, t \in TmpFs,
        c \in NodeAt(<<"/", "c">>, NodeAt(<<"/", "c", "dotslash">>, {Empty})) }

NoRet == [tag |-> "none", safe |-> FALSE, path |-> NoPath]
NoArg == [op |-> "none", path |-> NoPath, env |-> NoEnv]

FetchIdle ==
    /\ procs = <<>>
    /\ locks = Empty
    /\ dest = Empty
    /\ curl = <<>>

Init ==
    /\ fs \in CacheFileSystems
    /\ fs0 = fs
    /\ uid \in Uids
    /\ euid \in Uids
    /\ pc = "idle"
    /\ arg = NoArg
    /\ ret = NoRet
    /\ trace = <<>>
    /\ FetchIdle

\* DotslashCache::new_in(p): the cache rooted at p.
new_in(p) == [cache_dir |-> p]

\* DotslashCache::new(): the cache rooted at get_dotslash_cache(). When
\* get_dotslash_cache panics the panic unwinds through new and no
\* DotslashCache is built.
new(f, ru, eu, env) ==
    LET r == get_dotslash_cache(f, ru, eu, env)
    IN  IF r.tag = "panic"
        THEN [tag |-> "panic"]
        ELSE [tag |-> "cache", cache |-> new_in(r.path)]

\* A call of is_safe_to_own(path).
CallIsSafeToOwn ==
    /\ pc = "idle"
    /\ \E p \in CheckedPaths :
        /\ arg' = [op |-> "is_safe_to_own", path |-> p, env |-> NoEnv]
        /\ ret' = [tag |-> "bool", safe |-> is_safe_to_own(fs, p, uid, euid),
                   path |-> NoPath]
        /\ trace' = is_safe_to_own_stats(fs, p, uid, euid)
    /\ pc' = "done"
    /\ fs0' = fs
    /\ UNCHANGED <<fs, uid, euid>>
    /\ UNCHANGED fetchVars

\* A call of get_dotslash_cache() in some environment.
CallGetDotslashCache ==
    /\ pc = "idle"
    /\ \E env \in Envs :
        LET r == get_dotslash_cache(fs, uid, euid, env)
        IN  /\ arg' = [op |-> "get_dotslash_cache", path |-> NoPath, env |-> env]
            /\ ret' = [tag |-> r.tag, safe |-> FALSE, path |-> r.path]
            /\ trace' = r.trace
    /\ pc' = "done"
    /\ fs0' = fs
    /\ UNCHANGED <<fs, uid, euid>>
    /\ UNCHANGED fetchVars

\* A call of DotslashCache::new() in some environment.
CallNew ==
    /\ pc = "idle"
    /\ \E env \in Envs :
        LET c == new(fs, uid, euid, env)
        IN  /\ arg' = [op |-> "new", path |-> NoPath, env |-> env]
            /\ ret' = [tag |-> c.tag, safe |-> FALSE,
                       path |-> IF c.tag = "cache" THEN c.cache.cache_dir
                                ELSE NoPath]
            /\ trace' = get_dotslash_cache(fs, uid, euid, env).trace
    /\ pc' = "done"
    /\ fs0' = fs
    /\ UNCHANGED <<fs, uid, euid>>
    /\ UNCHANGED fetchVars

Next ==
    \/ CallIsSafeToOwn
    \/ CallGetDotslashCache
    \/ CallNew

Spec == Init /\ [][Next]_vars


(***************************************************************************)
(* Claims about the cache root (checked under Spec).                       *)
(***************************************************************************)
Called(op) == pc = "done" /\ arg.op = op

\* An ancestor the walk passes over: not found, or a component of its path
\* is not a directory.
Skipped(f, a, eu) == symlink_metadata(f, a, eu).err \in {"ENOENT", "ENOTDIR"}

\* The first ancestor of p that is not passed over exists and is owned by who.
DecidedOwnedBy(f, p, eu, who) ==
    LET anc == Ancestors(p)
    IN  \E i \in 1..Len(anc) :
            /\ \A j \in 1..(i - 1) : Skipped(f, anc[j], eu)
            /\ symlink_metadata(f, anc[i], eu).err = "OK"
            /\ symlink_metadata(f, anc[i], eu).meta.owner = who

\* C1: is_safe_to_own(P) is true iff the first ancestor of P whose lookup is
\* neither "not found" nor "not a directory" was looked up successfully and
\* is owned by the current EFFECTIVE user; false on permission denied, on
\* any other error and when every ancestor was passed over. The code
\* compares the owner with getuid(), the real user id, so a process whose
\* effective user differs from its real user is told that a directory of
\* the real user is safe to own.
C1_DecidedByEffectiveUser ==
    Called("is_safe_to_own") =>
        (ret.safe <=> DecidedOwnedBy(fs, arg.path, euid, euid))

ExistingAncestor(f, a, eu) == symlink_metadata(f, a, eu).err = "OK"
OwnerOf(f, a, eu) == symlink_metadata(f, a, eu).meta.owner

\* Every ancestor of p below the root is absent and the root is owned by who.
OnlyRootOwnedBy(f, p, eu, who) ==
    LET anc == Ancestors(p)
    IN  /\ IsAbsolute(p)
        /\ \A i \in 1..(Len(anc) - 1) :
               symlink_metadata(f, anc[i], eu).err = "ENOENT"
        /\ ExistingAncestor(f, Root, eu)
        /\ OwnerOf(f, Root, eu) = who

\* C2 as stated: if ANY existing ancestor of P is owned by another user the
\* check returns false; if only a root owned by the current user exists, true.
C2_AnyForeignAncestor ==
    Called("is_safe_to_own") =>
        LET anc == Ancestors(arg.path)
        IN  /\ (\E i \in 1..Len(anc) :
                    /\ ExistingAncestor(fs, anc[i], euid)
                    /\ OwnerOf(fs, anc[i], euid) # uid) => ~ret.safe
            /\ OnlyRootOwnedBy(fs, arg.path, euid, uid) => ret.safe

\* C2 amended: if the NEAREST existing ancestor of P (P included) is owned by
\* another user the check returns false; if only a root owned by the
\* current user exists, it returns true.
C2_NearestForeignAncestor ==
    Called("is_safe_to_own") =>
        LET anc == Ancestors(arg.path)
        IN  /\ (\E i \in 1..Len(anc) :
                    /\ ExistingAncestor(fs, anc[i], euid)
                    /\ \A j \in 1..(i - 1) : ~ExistingAncestor(fs, anc[j], euid)
                    /\ OwnerOf(fs, anc[i], euid) # uid) => ~ret.safe
            /\ OnlyRootOwnedBy(fs, arg.path, euid, uid) => ret.safe

\* C2 witness: P and its parent do not exist, the root is the nearest
\* existing ancestor and belongs to another user: not safe.
C2_Witness ==
    /\ Called("is_safe_to_own")
    /\ Len(arg.path) = 3
    /\ IsAbsolute(arg.path)
    /\ symlink_metadata(fs, arg.path, euid).err = "ENOENT"
    /\ symlink_metadata(fs, SubSeq(arg.path, 1, 2), euid).err = "ENOENT"
    /\ fs[Root].owner # uid
    /\ ~ret.safe

\* C3: with DOTSLASH_CACHE set, the cache root is exactly its value and the
\* only lookup made is the one of the variable itself.
C3_OverrideVerbatim ==
    (Called("get_dotslash_cache") /\ arg.env.override.some) =>
        /\ ret.tag = "path"
        /\ ret.path = arg.env.override.val
        /\ trace = <<Op("var_os", NoPath)>>

\* C3 witness: an override that is not safe to own is returned all the same.
C3_Witness ==
    /\ Called("get_dotslash_cache")
    /\ arg.env.override.some
    /\ ~is_safe_to_own(fs, arg.env.override.val, uid, euid)
    /\ ret.path = arg.env.override.val
    /\ arg.env.cache_dir.some

\* C4: with no override and a platform cache directory C, the cache root is
\* C/dotslash iff C/dotslash is safe to own, and <temp>/dotslash-<uid>
\* otherwise.
C4_PreferredOrFallback ==
    (Called("get_dotslash_cache") /\ ~arg.env.override.some /\ arg.env.cache_dir.some) =>
        LET cand == Join(arg.env.cache_dir.val, "dotslash")
            safe == is_safe_to_own(fs, cand, uid, euid)
        IN  /\ ret.tag = "path"
            /\ (ret.path = cand) <=> safe
            /\ ~safe => ret.path = arg.env.temp_dir \o <<"dotslash-" \o ToString(uid)>>

\* C4 witness: C/dotslash exists and belongs to another user, and the
\* fallback under the temp directory is returned.
C4_Witness ==
    /\ Called("get_dotslash_cache")
    /\ ~arg.env.override.some
    /\ arg.env.cache_dir.some
    /\ ExistingAncestor(fs, Join(arg.env.cache_dir.val, "dotslash"), euid)
    /\ uid = 1
    /\ ret.path = <<"/", "tmp", "dotslash-1">>

\* C5 as stated: with no override, the cache root returned is never a
\* directory owned by another user than the current one, on the preferred
\* path and on the fallback path alike.  (Stated for a process whose real
\* and effective user are the same, so that "the current user" is one user.)
C5_NeverForeignDirectory ==
    (/\ Called("get_dotslash_cache")
     /\ uid = euid
     /\ ~arg.env.override.some
     /\ ret.tag = "path") =>
        LET m == symlink_metadata(fs, ret.path, euid)
        IN  (m.err = "OK" /\ m.meta.kind = "dir") => m.meta.owner = uid


(***************************************************************************)
(* Hardening a cached tree: src/src/util/make_tree_read_only.rs.           *)
(***************************************************************************)
Children(f, d) == { p \in DOMAIN f : Len(p) = Len(d) + 1 /\ SubSeq(p, 1, Len(d)) = d }

\* fs_ctx::read_dir: the names in a directory; the directory is opened
\* through symbolic links and must be readable.
read_dir(f, folder, eu) ==
    LET m == metadata(f, folder, eu)
    IN  IF m.err # "OK" THEN [err |-> m.err, names |-> {}]
        ELSE IF m.meta.kind # "dir" THEN [err |-> "ENOTDIR", names |-> {}]
        ELSE IF ~MayRead(f, m.path, eu) THEN [err |-> "EACCES", names |-> {}]
        ELSE [err |-> "OK", names |-> { p[Len(p)] : p \in Children(f, m.path) }]

\* Metadata::permissions and Permissions::set_readonly(true), which clears
\* the write bits and keeps the others.
permissions(m) == [r |-> m.r, w |-> m.w, x |-> m.x]
set_readonly(perms, readonly) ==
    IF readonly THEN [perms EXCEPT !.w = FALSE] ELSE [perms EXCEPT !.w = TRUE]

\* fs_ctx::set_permissions = chmod(2): follows symbolic links, and only the
\* owner of the file or the superuser may change its mode.
set_permissions(f, p, perms, eu) ==
    LET m == metadata(f, p, eu)
    IN  IF m.err # "OK" THEN [err |-> m.err, fs |-> f]
        ELSE IF eu # 0 /\ eu # m.meta.owner THEN [err |-> "EPERM", fs |-> f]
        ELSE [err |-> "OK",
              fs |-> [f EXCEPT ![m.path].r = perms.r,
                               ![m.path].w = perms.w,
                               ![m.path].x = perms.x]]

Failed(f, at, done) == [ok |-> FALSE, fs |-> f, at |-> at, trace |-> done]

\* Mutant of the loop body: a directory is marked read-only without being
\* recursed into.
RECURSIVE make_tree_entries_read_only(_, _, _, _, _)
RECURSIVE for_each_entry(_, _, _, _, _, _)
for_each_entry_no_recursion(f, folder, todo, eu, ord, done) ==
    IF todo = <<>> THEN [ok |-> TRUE, fs |-> f, at |-> NoPath, trace |-> done]
    ELSE LET path == Join(folder, Head(todo))
             md   == symlink_metadata(f, path, eu)
         IN  IF md.err # "OK" THEN Failed(f, path, done)
             ELSE IF md.meta.kind = "symlink"
                  THEN for_each_entry(f, folder, Tail(todo), eu, ord, done)
             ELSE LET sp == set_permissions(f, path,
                                set_readonly(permissions(md.meta), TRUE), eu)
                  IN  IF sp.err # "OK" THEN Failed(f, path, done)
                      ELSE for_each_entry(sp.fs, folder, Tail(todo), eu, ord,
                                          Append(done, Op("chmod", path)))

\* The body of the loop `for entry in read_dir(folder)?` over the entries
\* still to visit; done lists the set_permissions calls made so far.
for_each_entry(f, folder, todo, eu, ord, done) ==
    IF todo = <<>> THEN [ok |-> TRUE, fs |-> f, at |-> NoPath, trace |-> done]
    ELSE LET path == Join(folder, Head(todo))
             md   == symlink_metadata(f, path, eu)
         IN  IF md.err # "OK" THEN Failed(f, path, done)
             ELSE IF md.meta.kind = "symlink"
                  THEN for_each_entry(f, folder, Tail(todo), eu, ord, done)
             ELSE LET sub == IF md.meta.kind = "dir"
                             THEN make_tree_entries_read_only(f, path, eu, ord, done)
                             ELSE [ok |-> TRUE, fs |-> f, at |-> NoPath, trace |-> done]
                  IN  IF ~sub.ok THEN sub
                      ELSE LET sp == set_permissions(sub.fs, path,
                                         set_readonly(permissions(md.meta), TRUE), eu)
                           IN  IF sp.err # "OK" THEN Failed(sub.fs, path, sub.trace)
                               ELSE for_each_entry(sp.fs, folder, Tail(todo), eu, ord,
                                                   Append(sub.trace, Op("chmod", path)))

\* Mutant: the folder itself is marked read-only once its entries are.
make_tree_entries_read_only_and_folder(f, folder, eu, ord, done) ==
    LET rd == read_dir(f, folder, eu)
        r  == for_each_entry(f, folder, SelectSeq(ord, LAMBDA n : n \in rd.names),
                             eu, ord, done)
        sp == set_permissions(r.fs, folder,
                  set_readonly(permissions(metadata(r.fs, folder, eu).meta), TRUE), eu)
    IN  IF rd.err # "OK" THEN Failed(f, folder, done)
        ELSE IF ~r.ok \/ sp.err # "OK" THEN r
        ELSE [r EXCEPT !.fs = sp.fs]

\* ord is the order in which read_dir yields names, which the OS chooses.
make_tree_entries_read_only(f, folder, eu, ord, done) ==
    LET rd == read_dir(f, folder, eu)
    IN  IF rd.err # "OK" THEN Failed(f, folder, done)
        ELSE for_each_entry(f, folder, SelectSeq(ord, LAMBDA n : n \in rd.names),
                            eu, ord, done)

(***************************************************************************)
(* The trees that are hardened.                                            *)
(***************************************************************************)
Folder == <<"/", "t">>
Outside == <<"/", "o">>
Orders == { <<"a", "b">>, <<"b", "a">> }

\* Where a symbolic link at p may point inside the tree.
InTreeTarget(p) ==
    IF p = Join(Folder, "a") THEN Join(Folder, "b") ELSE Join(Folder, "a")

\* Directory modes: all access, not readable, not searchable.
DirsAt(p, below) ==
    { Single(p, Dir(o, m[1], TRUE, m[2])) @@ b :
        o \in Uids, m \in {<<TRUE, TRUE>>, <<FALSE, TRUE>>, <<TRUE, FALSE>>}, b \in below }

LeavesAt(p) ==
    {Empty}
    \cup { Single(p, File(o, w)) : o \in Uids, w \in BOOLEAN }
    \cup { Single(p, Symlink(0, t)) : t \in {InTreeTarget(p), Outside} }

\* What may be at p with d levels of entries still allowed below the folder.
RECURSIVE TreeAt(_, _)
TreeAt(p, d) ==
    IF d = 0 THEN {Empty}
    ELSE LeavesAt(p) \cup DirsAt(p, TreeAt(Join(p, "a"), d - 1))

TreeFileSystems ==
    { Single(Root, Dir(0, TRUE, TRUE, TRUE))
        @@ Single(Outside, Dir(1, TRUE, TRUE, TRUE))
        @@ Single(Join(Outside, "a"), File(1, TRUE))
        @@ Single(Folder, Dir(1, TRUE, TRUE, TRUE)) @@ a @@ b :
        a \in TreeAt(Join(Folder, "a"), MaxTreeDepth),
        b \in LeavesAt(Join(Folder, "b")) }

InitTree ==
    /\ fs \in TreeFileSystems
    /\ fs0 = fs
    /\ uid \in Uids
    /\ euid = uid
    /\ pc = "idle"
    /\ arg = NoArg
    /\ ret = NoRet
    /\ trace = <<>>
    /\ FetchIdle

\* A call of make_tree_entries_read_only(Folder).
CallMakeTreeEntriesReadOnly ==
    /\ pc = "idle"
    /\ \E ord \in Orders :
        LET r == make_tree_entries_read_only(fs, Folder, euid, ord, <<>>)
        IN  /\ fs' = r.fs
            /\ ret' = [tag |-> IF r.ok THEN "ok" ELSE "err", safe |-> FALSE,
                       path |-> r.at]
            /\ trace' = r.trace
    /\ arg' = [op |-> "make_tree_entries_read_only", path |-> Folder, env |-> NoEnv]
    /\ fs0' = fs
    /\ pc' = "done"
    /\ UNCHANGED <<uid, euid>>
    /\ UNCHANGED fetchVars

NextTree == CallMakeTreeEntriesReadOnly

SpecTree == InitTree /\ [][NextTree]_vars


(***************************************************************************)
(* Claims about hardening (checked under SpecTree).                        *)
(***************************************************************************)
\* The entries below d.  A symbolic link has no entries below it, so these
\* are the entries reached from d without passing through a symbolic link.
Below(f, d) == { p \in DOMAIN f : Len(p) > Len(d) /\ SubSeq(p, 1, Len(d)) = d }

ReadOnly(e) == ~e.w

\* C7: after make_tree_entries_read_only(folder) returned Ok, every regular
\* file and every directory below folder, at any depth, is read-only.
C7_AllEntriesReadOnly ==
    (Called("make_tree_entries_read_only") /\ ret.tag = "ok") =>
        \A p \in Below(fs, Folder) :
            fs[p].kind \in {"file", "dir"} => ReadOnly(fs[p])

\* C7 witness: a tree with a subdirectory holding a writable file and with a
\* symbolic link beside it was hardened.
C7_Witness ==
    /\ Called("make_tree_entries_read_only")
    /\ ret.tag = "ok"
    /\ Exists(fs0, <<"/", "t", "a", "a">>)
    /\ fs0[<<"/", "t", "a", "a">>].kind = "file"
    /\ fs0[<<"/", "t", "a", "a">>].w
    /\ Exists(fs0, <<"/", "t", "b">>)
    /\ fs0[<<"/", "t", "b">>].kind = "symlink"
    /\ ReadOnly(fs[<<"/", "t", "a", "a">>])

TreeSymlinks(f) == { p \in Below(f, Folder) : f[p].kind = "symlink" }

\* C8 as stated: the call never changes the folder itself, a symbolic link
\* of the tree, the TARGET of such a link, or anything outside the tree.
C8_LinkTargetsUntouched ==
    Called("make_tree_entries_read_only") =>
        /\ DOMAIN fs = DOMAIN fs0
        /\ fs[Folder] = fs0[Folder]
        /\ \A l \in TreeSymlinks(fs0) :
              /\ fs[l] = fs0[l]
              /\ Exists(fs0, fs0[l].target) => fs[fs0[l].target] = fs0[fs0[l].target]
        /\ \A p \in DOMAIN fs0 \ Below(fs0, Folder) : fs[p] = fs0[p]

\* C8 amended: the call changes nothing but entries of the tree that are not
\* symbolic links: the folder, every symbolic link and everything outside
\* the tree (so everything reachable only through a link) keep their
\* permissions, whether the call succeeds or fails part-way.
C8_OnlyTreeEntriesChange ==
    Called("make_tree_entries_read_only") =>
        /\ DOMAIN fs = DOMAIN fs0
        /\ fs[Folder] = fs0[Folder]
        /\ \A l \in TreeSymlinks(fs0) : fs[l] = fs0[l]
        /\ \A p \in DOMAIN fs0 \ Below(fs0, Folder) : fs[p] = fs0[p]
        /\ \A p \in Below(fs0, Folder) :
              [fs[p] EXCEPT !.w = TRUE] = [fs0[p] EXCEPT !.w = TRUE]

\* C8 witness: the call failed after it had changed an entry, in a tree
\* with a symbolic link to a directory outside it.
C8_Witness ==
    /\ Called("make_tree_entries_read_only")
    /\ ret.tag = "err"
    /\ trace # <<>>
    /\ fs # fs0
    /\ \E l \in TreeSymlinks(fs0) : fs0[l].target = Outside


(***************************************************************************)
(* The cache layout: DotslashCache in src/src/dotslash_cache.rs.           *)
(***************************************************************************)
cache_dir(cache) == cache.cache_dir
artifacts_dir(cache) == cache.cache_dir

\* Mutant: one lock directory for the whole cache.
locks_dir_no_prefix(cache, artifact_hash_prefix) == Join(cache.cache_dir, "locks")

locks_dir(cache, artifact_hash_prefix) ==
    Join(Join(cache.cache_dir, "locks"), artifact_hash_prefix)

\* An artifact hash is the sequence of its hex digits; the first two are
\* the shard prefix, and the artifact is stored under
\* <artifacts_dir>/<prefix>/<hash>.
Hashes == { <<"a", "b", "1">>, <<"a", "b", "2">>, <<"c", "d", "1">> }
NoHash == <<"0", "0", "0">>
HashPrefix(h) == h[1] \o h[2]
RECURSIVE HashString(_)
HashString(h) == IF h = <<>> THEN "" ELSE Head(h) \o HashString(Tail(h))
Destination(cache, h) == Join(Join(artifacts_dir(cache), HashPrefix(h)), HashString(h))

(***************************************************************************)
(* Provider configurations: serde_jsonrc values, and their deserialization *)
(* as HttpProviderConfig { url: String } (src/src/http_provider.rs).       *)
(***************************************************************************)
NoFields == [k \in {} |-> 0]
JNull == [t |-> "null", str |-> "", items |-> <<>>, fields |-> NoFields]
JNumber == [t |-> "number", str |-> "", items |-> <<>>, fields |-> NoFields]
JString(v) == [t |-> "string", str |-> v, items |-> <<>>, fields |-> NoFields]
JArray(items) == [t |-> "array", str |-> "", items |-> items, fields |-> NoFields]
JObject(fields) == [t |-> "object", str |-> "", items |-> <<>>, fields |-> fields]

Url == "https://example/artifact"
ValidConfig == JObject("url" :> JString(Url))
Configs ==
    { ValidConfig,
      JObject(("url" :> JString(Url)) @@ ("type" :> JString("http"))),
      JObject(NoFields),
      JObject("type" :> JString("http")),
      JObject("url" :> JNumber),
      JObject("url" :> JNull),
      JNull,
      JString(Url),
      JArray(<<>>),
      JArray(<<JString(Url)>>),
      JArray(<<JNumber>>),
      JArray(<<JString(Url), JString("http")>>) }

ConfigOk(url) == [ok |-> TRUE, url |-> url, err |-> ""]
ConfigErr(e) == [ok |-> FALSE, url |-> "", err |-> e]

\* #[derive(Deserialize)] on a struct with the one field `url`, applied to a
\* Value: an object is read by field name (unknown fields are ignored), an
\* array is read as the sequence of the struct's fields, anything else is
\* an invalid type.
HttpProviderConfig_deserialize(v) ==
    IF v.t = "object"
    THEN IF "url" \notin DOMAIN v.fields THEN ConfigErr("missing field url")
         ELSE IF v.fields["url"].t # "string" THEN ConfigErr("invalid type")
         ELSE ConfigOk(v.fields["url"].str)
    ELSE IF v.t = "array"
    THEN IF Len(v.items) = 0 THEN ConfigErr("invalid length 0")
         ELSE IF v.items[1].t # "string" THEN ConfigErr("invalid type")
         ELSE IF Len(v.items) > 1 THEN ConfigErr("invalid length")
         ELSE ConfigOk(v.items[1].str)
    ELSE ConfigErr("invalid type")

(***************************************************************************)
(* Fetching: a process takes the file lock of the artifact's shard, calls  *)
(* HttpProvider::fetch_artifact and releases the lock.  The lock and the   *)
(* transfer (CurlCommand::get_request) are collaborators of the provider.  *)
(***************************************************************************)
Procs == 1..NumProcs
TheCache == new_in(<<"/", "c", "dotslash">>)

\* The bytes the url serves.
Content == [i \in 1..ContentLen |-> i]

IdleProc ==
    [pc |-> "idle", hash |-> NoHash, config |-> JNull, n |-> 0,
     result |-> "none", context |-> ""]

LockDirOf(p) == locks_dir(TheCache, HashPrefix(procs[p].hash))
DestOf(p) == Destination(TheCache, procs[p].hash)

InitFetch ==
    /\ fs = Empty
    /\ fs0 = Empty
    /\ uid = 0
    /\ euid = 0
    /\ pc = "idle"
    /\ arg = NoArg
    /\ ret = NoRet
    /\ trace = <<>>
    /\ procs = [p \in Procs |-> IdleProc]
    /\ locks = Empty
    /\ dest = Empty
    /\ curl = <<>>

\* A process sets out to fetch an artifact with a provider configuration.
Begin(p, configs) ==
    /\ procs[p].pc = "idle"
    /\ \E h \in Hashes, c \in configs :
          procs' = [procs EXCEPT ![p].pc = "start", ![p].hash = h, ![p].config = c]
    /\ UNCHANGED <<locks, dest, curl>>
    /\ UNCHANGED fsVars

\* FileLock: the caller blocks until no process holds the lock of the
\* shard's lock directory, then holds it.
Acquire(p) ==
    /\ procs[p].pc = "start"
    /\ LockDirOf(p) \notin DOMAIN locks
    /\ locks' = locks @@ (LockDirOf(p) :> p)
    /\ procs' = [procs EXCEPT ![p].pc = "locked"]
    /\ UNCHANGED <<dest, curl>>
    /\ UNCHANGED fsVars

\* fetch_artifact up to the start of the transfer: the configuration is
\* deserialized, and only then is the transfer command built.
FetchArtifact(p) ==
    /\ procs[p].pc = "locked"
    /\ LET config == HttpProviderConfig_deserialize(procs[p].config)
       IN  IF ~config.ok
           THEN /\ procs' = [procs EXCEPT ![p].pc = "failed",
                                          ![p].result = "ConfigError",
                                          ![p].context = config.err]
                /\ curl' = curl
           ELSE /\ procs' = [procs EXCEPT ![p].pc = "transfer", ![p].n = 0]
                /\ curl' = Append(curl, [proc |-> p, url |-> config.url,
                                          output |-> DestOf(p)])
    /\ UNCHANGED <<locks, dest>>
    /\ UNCHANGED fsVars

\* get_request: the transfer writes the next byte to the destination, which
\* it creates or truncates with the first one.
CurlWrite(p) ==
    /\ procs[p].pc = "transfer"
    /\ procs[p].n < Len(Content)
    /\ LET sofar == IF procs[p].n = 0 THEN <<>> ELSE dest[DestOf(p)]
           bytes == Append(sofar, Content[procs[p].n + 1])
       IN  dest' = [d \in DOMAIN dest \cup {DestOf(p)} |->
                        IF d = DestOf(p) THEN bytes ELSE dest[d]]
    /\ procs' = [procs EXCEPT ![p].n = @ + 1]
    /\ UNCHANGED <<locks, curl>>
    /\ UNCHANGED fsVars

\* get_request returns Ok once everything is written, and fetch_artifact
\* returns Ok(()).
CurlSucceed(p) ==
    /\ procs[p].pc = "transfer"
    /\ procs[p].n = Len(Content)
    /\ procs' = [procs EXCEPT ![p].pc = "fetched", ![p].result = "Ok"]
    /\ UNCHANGED <<locks, dest, curl>>
    /\ UNCHANGED fsVars

\* get_request fails at any point of the transfer; fetch_artifact returns
\* the error with the context "failed to fetch <url>".
CurlFail(p) ==
    /\ procs[p].pc = "transfer"
    /\ procs' = [procs EXCEPT ![p].pc = "failed", ![p].result = "FetchError",
                   ![p].context = HttpProviderConfig_deserialize(procs[p].config).url]
    /\ UNCHANGED <<locks, dest, curl>>
    /\ UNCHANGED fsVars

\* The caller releases the lock after the fetch returned.
Release(p) ==
    /\ procs[p].pc \in {"fetched", "failed"}
    /\ locks' = [d \in DOMAIN locks \ {LockDirOf(p)} |-> locks[d]]
    /\ procs' = [procs EXCEPT ![p].pc = "done"]
    /\ UNCHANGED <<dest, curl>>
    /\ UNCHANGED fsVars

NextFetch ==
    \E p \in Procs :
        \/ Begin(p, {ValidConfig})
        \/ Acquire(p)
        \/ FetchArtifact(p)
        \/ CurlWrite(p)
        \/ CurlSucceed(p)
        \/ CurlFail(p)
        \/ Release(p)

SpecFetch == InitFetch /\ [][NextFetch]_vars

\* One process fetching with any provider configuration.
NextProvider ==
    \E p \in {1} :
        \/ Begin(p, Configs)
        \/ Acquire(p)
        \/ FetchArtifact(p)
        \/ CurlWrite(p)
        \/ CurlSucceed(p)
        \/ CurlFail(p)
        \/ Release(p)

SpecProvider == InitFetch /\ [][NextProvider]_vars


(***************************************************************************)
(* Claims about fetching (checked under SpecFetch and SpecProvider).       *)
(***************************************************************************)
\* The process holds the lock of its shard: from acquiring it to releasing.
Holding(p) == procs[p].pc \in {"locked", "transfer", "fetched", "failed"}
Writing(p) == procs[p].pc = "transfer"
Started(p) == procs[p].pc # "idle"
SamePrefix(p, q) == HashPrefix(procs[p].hash) = HashPrefix(procs[q].hash)

\* C6: fetches of artifacts with the same two-character prefix are
\* serialized: while one holds the shard's lock no other holds it or writes
\* to a destination; fetches with different prefixes use different lock
\* directories, and a process waiting for a lock waits only for a process
\* of its own prefix.
C6_SerializedPerPrefix ==
    \A p \in Procs : \A q \in Procs \ {p} :
        (Started(p) /\ Started(q)) =>
            /\ SamePrefix(p, q) => ~(Holding(p) /\ Holding(q))
            /\ SamePrefix(p, q) => ~(Holding(p) /\ Writing(q))
            /\ ~SamePrefix(p, q) => LockDirOf(p) # LockDirOf(q)
            /\ (procs[p].pc = "start" /\ LockDirOf(p) \in DOMAIN locks
                  /\ locks[LockDirOf(p)] = q) => SamePrefix(p, q)
            /\ Holding(p) => (LockDirOf(p) \in DOMAIN locks /\ locks[LockDirOf(p)] = p)

\* C6 witness: one process has written part of its artifact while another,
\* fetching a different artifact of the same prefix, waits for the lock.
C6_Witness ==
    \E p \in Procs : \E q \in Procs \ {p} :
        /\ Writing(p)
        /\ procs[p].n > 0
        /\ procs[q].pc = "start"
        /\ SamePrefix(p, q)
        /\ procs[p].hash # procs[q].hash
        /\ dest[DestOf(p)] # <<>>
        /\ DestOf(q) \notin DOMAIN dest

Returned(p) == procs[p].pc \in {"fetched", "failed"}

\* C9 as stated: when fetch_artifact returns Ok the destination holds
\* exactly the fetched content; when it returns an error no partial file
\* is at the destination; a transfer failure carries the failing url.
C9_NoPartialFileOnError ==
    \A p \in Procs :
        /\ (Returned(p) /\ procs[p].result = "Ok") =>
              (DestOf(p) \in DOMAIN dest /\ dest[DestOf(p)] = Content)
        /\ (Returned(p) /\ procs[p].result = "FetchError") =>
              /\ procs[p].context = HttpProviderConfig_deserialize(procs[p].config).url
              /\ (DestOf(p) \in DOMAIN dest => dest[DestOf(p)] = Content)

\* The configuration has no `url`, or one that is not a string.
UrlAbsentOrNotString(v) ==
    ~(v.t = "object" /\ "url" \in DOMAIN v.fields /\ v.fields["url"].t = "string")

\* C10 as stated: with a configuration in which `url` is absent or not a
\* string, fetch_artifact returns a configuration error: no transfer
\* command is built, nothing is written, and the lock is left as the
\* caller took it.
C10_ConfigErrorBeforeTransfer ==
    \A p \in Procs :
        (UrlAbsentOrNotString(procs[p].config)
            /\ procs[p].pc \in {"transfer", "fetched", "failed"}) =>
            /\ procs[p].pc = "failed"
            /\ procs[p].result = "ConfigError"
            /\ curl = <<>>
            /\ dest = Empty
            /\ LockDirOf(p) \in DOMAIN locks
            /\ locks[LockDirOf(p)] = p

=============================================================================
